---------------------------- MODULE Spec2Model ----------------------------
(***************************************************************************)
(* Model of the HTML template engine of src/template.ts.                   *)
(*                                                                         *)
(* A document is a sequence of characters (one-character strings).  The    *)
(* regular expressions of the source are modelled by matchers that scan    *)
(* the characters the way the JavaScript engine does: leftmost match,      *)
(* greedy or lazy quantifiers, the scan resuming after each match.         *)
(* String.prototype.replace / replaceAll with a string replacement expand  *)
(* the replacement patterns $$, $&, $' and $-grave (GetSubstitution).           *)
(*                                                                         *)
(* The asynchronous functions are cut at their awaits: one action runs the *)
(* code from one suspension point to the next.                             *)
(***************************************************************************)
EXTENDS Integers, Sequences, FiniteSets, TLC

(***************************************************************************)
(* Characters and character classes                                        *)
(***************************************************************************)

\* \s of the regular expressions and the set String.prototype.trim strips
IsSpace(c) == c \in {" ", "\t", "\n", "\r", "\f"}

\* the line terminators after which ^ matches under the m flag
IsLineTerminator(c) == c \in {"\n", "\r"}

Digits == {"0", "1", "2", "3", "4", "5", "6", "7", "8", "9"}

\* \w of the regular expressions: [A-Za-z0-9_]
IsWord(c) ==
    c \in Digits \cup {"_"} \cup
          {"a", "b", "c", "d", "e", "f", "g", "h", "i", "j", "k", "l", "m",
           "n", "o", "p", "q", "r", "s", "t", "u", "v", "w", "x", "y", "z",
           "A", "B", "C", "D", "E", "F", "G", "H", "I", "J", "K", "L", "M",
           "N", "O", "P", "Q", "R", "S", "T", "U", "V", "W", "X", "Y", "Z"}

CommentOpen == <<"<", "!", "-", "-">>
CommentClose == <<"-", "-", ">">>
IncludeWord == <<"i", "n", "c", "l", "u", "d", "e", "(">>
IncludeIfWord == <<"i", "n", "c", "l", "u", "d", "e", "I", "f", "(">>
RenderIfWord == <<"r", "e", "n", "d", "e", "r", "I", "f", "(">>
EndIfWord == <<"e", "n", "d", "I", "f", "(">>

(***************************************************************************)
(* String primitives                                                       *)
(***************************************************************************)

\* the literal lit occurs in s at index i (1-based)
StartsWith(s, i, lit) ==
    /\ i >= 1
    /\ i + Len(lit) - 1 <= Len(s)
    /\ \A j \in 1..Len(lit) : s[i + j - 1] = lit[j]

RECURSIVE SkipSpace(_, _)
\* \s* from index i: the index after the longest run of white space
SkipSpace(s, i) ==
    IF i <= Len(s) /\ IsSpace(s[i]) THEN SkipSpace(s, i + 1) ELSE i

RECURSIVE SkipWord(_, _)
\* \w* from index i
SkipWord(s, i) ==
    IF i <= Len(s) /\ IsWord(s[i]) THEN SkipWord(s, i + 1) ELSE i

RECURSIVE SkipBack(_, _)
\* the index of the last character of s[1..i] that is not white space
SkipBack(s, i) ==
    IF i >= 1 /\ IsSpace(s[i]) THEN SkipBack(s, i - 1) ELSE i

\* ;? at index i
SkipSemicolon(s, i) == IF i <= Len(s) /\ s[i] = ";" THEN i + 1 ELSE i

\* the least index of a set of indices, 0 when the set is empty: the
\* leftmost position at which a scan finds what it looks for
First(indices) ==
    IF indices = {} THEN 0
    ELSE CHOOSE j \in indices : \A k \in indices : j <= k

\* the first index >= i of character c in s, 0 when there is none
FindChar(s, i, c) ==
    First({j \in i..Len(s) : s[j] = c})

\* the first index >= i at which pat occurs in s, 0 when there is none
IndexOf(s, pat, i) ==
    First({j \in i..Len(s) : StartsWith(s, j, pat)})

\* String.prototype.trim
Trim(s) ==
    LET a == SkipSpace(s, 1)
        b == SkipBack(s, Len(s))
    IN  IF a > b THEN <<>> ELSE SubSeq(s, a, b)

\* the grave accent character (it cannot be written inside a string here)
Backtick == "grave"

RECURSIVE GetSubstitution(_, _, _, _, _)
\* the expansion of a replacement string from its index k on, for the match
\* `matched` found at index `position` of `str`; a string pattern has no
\* captures, so $1..$99 and $< stay as written
GetSubstitution(matched, str, position, replacement, k) ==
    IF k > Len(replacement) THEN <<>>
    ELSE IF replacement[k] = "$" /\ k < Len(replacement)
    THEN LET n == replacement[k + 1]
             rest == GetSubstitution(matched, str, position, replacement, k + 2)
         IN  CASE n = "$" -> <<"$">> \o rest
               [] n = "&" -> matched \o rest
               [] n = Backtick -> SubSeq(str, 1, position - 1) \o rest
               [] n = "'" -> SubSeq(str, position + Len(matched), Len(str)) \o rest
               [] OTHER -> <<"$">> \o
                    GetSubstitution(matched, str, position, replacement, k + 1)
    ELSE <<replacement[k]>> \o
             GetSubstitution(matched, str, position, replacement, k + 1)

\* String.prototype.replace(pattern: string, replacement: string): the first
\* occurrence only
StringReplace(str, pattern, replacement) ==
    LET i == IndexOf(str, pattern, 1)
    IN  IF i = 0 THEN str
        ELSE SubSeq(str, 1, i - 1)
                 \o GetSubstitution(pattern, str, i, replacement, 1)
                 \o SubSeq(str, i + Len(pattern), Len(str))

RECURSIVE StringReplaceAllFrom(_, _, _, _)
StringReplaceAllFrom(str, pattern, replacement, from) ==
    LET i == IndexOf(str, pattern, from)
    IN  IF i = 0 THEN SubSeq(str, from, Len(str))
        ELSE SubSeq(str, from, i - 1)
                 \o GetSubstitution(pattern, str, i, replacement, 1)
                 \o StringReplaceAllFrom(str, pattern, replacement, i + Len(pattern))

\* String.prototype.replaceAll(pattern: string, replacement: string)
StringReplaceAll(str, pattern, replacement) ==
    StringReplaceAllFrom(str, pattern, replacement, 1)

(***************************************************************************)
(* The regular expressions.  A matcher gives the match that starts at      *)
(* index i, or NoMatch; `end` is the index after the match.                *)
(***************************************************************************)

NoMatch == [end |-> 0]

\* \);?\s*--> at index i: the index after it, 0 when it does not match
CallClose(s, i) ==
    IF i >= 1 /\ i <= Len(s) /\ s[i] = ")"
    THEN LET j == SkipSpace(s, SkipSemicolon(s, i + 1))
         IN  IF StartsWith(s, j, CommentClose) THEN j + 3 ELSE 0
    ELSE 0

\* /<!--\s*(\w+)\s*-->/ at index i
PlaceholderAt(s, i) ==
    IF ~StartsWith(s, i, CommentOpen) THEN NoMatch
    ELSE LET j == SkipSpace(s, i + 4)
             k == SkipWord(s, j)
             l == SkipSpace(s, k)
         IN  IF k > j /\ StartsWith(s, l, CommentClose)
             THEN [end |-> l + 3, key |-> SubSeq(s, j, k - 1)]
             ELSE NoMatch

\* /<!--\s*include\(([^)]+)\);?\s*-->/ at index i
IncludeAt(s, i) ==
    IF ~StartsWith(s, i, CommentOpen) THEN NoMatch
    ELSE LET j == SkipSpace(s, i + 4)
             a == j + Len(IncludeWord)
             p == FindChar(s, a, ")")
             e == CallClose(s, p)
         IN  IF StartsWith(s, j, IncludeWord) /\ p > a /\ e > 0
             THEN [end |-> e, g1 |-> SubSeq(s, a, p - 1)]
             ELSE NoMatch

\* /<!--\s*includeIf\(([^,]+),([^)]+)\);?\s*-->/ at index i
IncludeIfAt(s, i) ==
    IF ~StartsWith(s, i, CommentOpen) THEN NoMatch
    ELSE LET j == SkipSpace(s, i + 4)
             a == j + Len(IncludeIfWord)
             c == FindChar(s, a, ",")
             p == IF c = 0 THEN 0 ELSE FindChar(s, c + 1, ")")
             e == CallClose(s, p)
         IN  IF StartsWith(s, j, IncludeIfWord) /\ c > a /\ p > c + 1 /\ e > 0
             THEN [end |-> e, g1 |-> SubSeq(s, a, c - 1),
                   g2 |-> SubSeq(s, c + 1, p - 1)]
             ELSE NoMatch

\* /<!--\s*endIf\(\);?\s*-->/ at index i: the index after it, 0 for no match
EndIfAt(s, i) ==
    IF ~StartsWith(s, i, CommentOpen) THEN 0
    ELSE LET j == SkipSpace(s, i + 4)
         IN  IF StartsWith(s, j, EndIfWord)
             THEN CallClose(s, j + Len(EndIfWord))
             ELSE 0

\* ([\s\S]*?) followed by the endIf comment: the first index >= i where the
\* endIf comment matches, 0 when there is none
FindEndIf(s, i) ==
    First({j \in i..Len(s) : EndIfAt(s, j) > 0})

\* /<!--\s*renderIf\(([^)]+)\);?\s*-->([\s\S]*?)<!--\s*endIf\(\);?\s*-->/
RenderIfAt(s, i) ==
    IF ~StartsWith(s, i, CommentOpen) THEN NoMatch
    ELSE LET j == SkipSpace(s, i + 4)
             a == j + Len(RenderIfWord)
             p == FindChar(s, a, ")")
             b == CallClose(s, p)
             x == IF b = 0 THEN 0 ELSE FindEndIf(s, b)
         IN  IF StartsWith(s, j, RenderIfWord) /\ p > a /\ x > 0
             THEN [end |-> EndIfAt(s, x), g1 |-> SubSeq(s, a, p - 1),
                   g2 |-> SubSeq(s, b, x - 1)]
             ELSE NoMatch

\* /<!--[\s\S]*?-->/ at index i
CommentAt(s, i) ==
    IF ~StartsWith(s, i, CommentOpen) THEN NoMatch
    ELSE LET k == IndexOf(s, CommentClose, i + 4)
         IN  IF k = 0 THEN NoMatch ELSE [end |-> k + 3]

(***************************************************************************)
(* View model values                                                       *)
(***************************************************************************)

Undefined == [t |-> "undefined"]
Bool(b) == [t |-> "boolean", v |-> b]
Num(n) == [t |-> "number", v |-> n]
Str(s) == [t |-> "string", v |-> s]

\* viewModel[key]
Lookup(viewModel, key) ==
    IF key \in DOMAIN viewModel THEN viewModel[key] ELSE Undefined

RECURSIVE NatToString(_)
NatToString(n) ==
    LET d == <<"0", "1", "2", "3", "4", "5", "6", "7", "8", "9">>[(n % 10) + 1]
    IN  IF n < 10 THEN <<d>> ELSE NatToString(n \div 10) \o <<d>>

\* String(value)
StringOf(value) ==
    CASE value.t = "boolean" ->
             IF value.v THEN <<"t", "r", "u", "e">> ELSE <<"f", "a", "l", "s", "e">>
      [] value.t = "number" ->
             IF value.v < 0 THEN <<"-">> \o NatToString(-value.v)
             ELSE NatToString(value.v)
      [] value.t = "string" -> value.v
      [] OTHER -> <<"u", "n", "d", "e", "f", "i", "n", "e", "d">>

\* the truthiness of a value in a condition
Truthy(value) ==
    CASE value.t = "boolean" -> value.v
      [] value.t = "number" -> value.v # 0
      [] value.t = "string" -> Len(value.v) > 0
      [] OTHER -> FALSE

(***************************************************************************)
(* The synchronous passes                                                  *)
(***************************************************************************)

\* replacer(match, key) deciding by the truthiness of the value
PlaceholderReplacerTruthy(viewModel, matched, key) ==
    IF Truthy(Lookup(viewModel, key))
    THEN StringOf(Lookup(viewModel, key))
    ELSE matched

\* replacer(match, key) of replacePlaceholders
PlaceholderReplacer(viewModel, matched, key) ==
    IF Lookup(viewModel, key) # Undefined
    THEN StringOf(Lookup(viewModel, key))
    ELSE matched

RECURSIVE ReplacePlaceholdersFrom(_, _, _)
\* the text from index i on, with the next match at index j (0: no match
\* is left): the match is replaced by what replacer returns, taken
\* literally, and the scan resumes after the match
ReplacePlaceholdersNext(html, viewModel, i, j) ==
    IF j = 0 THEN SubSeq(html, i, Len(html))
    ELSE LET m == PlaceholderAt(html, j)
         IN  SubSeq(html, i, j - 1)
                 \o PlaceholderReplacer(viewModel, SubSeq(html, j, m.end - 1), m.key)
                 \o ReplacePlaceholdersFrom(html, viewModel, m.end)

\* html.replace(/<!--\s*(\w+)\s*-->/g, replacer) from index i on
ReplacePlaceholdersFrom(html, viewModel, i) ==
    ReplacePlaceholdersNext(html, viewModel, i,
        First({k \in i..Len(html) : PlaceholderAt(html, k) # NoMatch}))

replacePlaceholders(html, viewModel) == ReplacePlaceholdersFrom(html, viewModel, 1)

\* replacer(_, key, content) rendering the content of every present key
RenderIfReplacerPresent(viewModel, key, content) ==
    IF Lookup(viewModel, key) # Undefined THEN content ELSE <<>>

\* replacer(_, key, content) of renderIf
RenderIfReplacer(viewModel, key, content) ==
    IF Truthy(Lookup(viewModel, key)) THEN content ELSE <<>>

RECURSIVE RenderIfFrom(_, _, _)
\* the text from index i on, with the next match at index j (0: no match
\* is left); the key is the text between the parentheses as written
RenderIfNext(html, viewModel, i, j) ==
    IF j = 0 THEN SubSeq(html, i, Len(html))
    ELSE LET m == RenderIfAt(html, j)
         IN  SubSeq(html, i, j - 1)
                 \o RenderIfReplacer(viewModel, m.g1, m.g2)
                 \o RenderIfFrom(html, viewModel, m.end)

\* html.replace(renderIfRegEx, replacer) from index i on
RenderIfFrom(html, viewModel, i) ==
    RenderIfNext(html, viewModel, i,
        First({k \in i..Len(html) : RenderIfAt(html, k) # NoMatch}))

renderIf(html, viewModel) == RenderIfFrom(html, viewModel, 1)

RECURSIVE StripLineStarts(_, _)
\* html.replace(/^\s+/gm, "") from index i on
StripLineStarts(s, i) ==
    LET j == First({k \in i..Len(s) : /\ k = 1 \/ IsLineTerminator(s[k - 1])
                                      /\ IsSpace(s[k])})
    IN  IF j = 0 THEN SubSeq(s, i, Len(s))
        ELSE SubSeq(s, i, j - 1) \o StripLineStarts(s, SkipSpace(s, j))

RECURSIVE SkipLineBreaks(_, _)
SkipLineBreaks(s, i) ==
    IF i <= Len(s) /\ s[i] \in {"\r", "\n"} THEN SkipLineBreaks(s, i + 1) ELSE i

RECURSIVE CollapseLineBreaks(_, _)
\* html.replace(/[\r\n]+/g, "\n") from index i on
CollapseLineBreaks(s, i) ==
    LET j == First({k \in i..Len(s) : s[k] \in {"\r", "\n"}})
    IN  IF j = 0 THEN SubSeq(s, i, Len(s))
        ELSE SubSeq(s, i, j - 1) \o <<"\n">>
                 \o CollapseLineBreaks(s, SkipLineBreaks(s, j))

RECURSIVE RemoveComments(_, _)
\* the text from index i on, with the next comment at index j (0: no
\* comment is left)
RemoveCommentsNext(s, i, j) ==
    IF j = 0 THEN SubSeq(s, i, Len(s))
    ELSE SubSeq(s, i, j - 1) \o RemoveComments(s, CommentAt(s, j).end)

\* html.replace(/<!--[\s\S]*?-->/g, "") from index i on
RemoveComments(s, i) ==
    RemoveCommentsNext(s, i, First({k \in i..Len(s) : CommentAt(s, k) # NoMatch}))

minifyHtml(html) ==
    RemoveComments(Trim(CollapseLineBreaks(StripLineStarts(html, 1), 1)), 1)

(***************************************************************************)
(* node:path join (POSIX)                                                  *)
(***************************************************************************)

RECURSIVE SplitPath(_, _, _)
\* the segments of path p between its "/" characters, from index i on, seg
\* being the segment read so far
SplitPath(p, i, seg) ==
    IF i > Len(p) THEN <<seg>>
    ELSE IF p[i] = "/" THEN <<seg>> \o SplitPath(p, i + 1, <<>>)
    ELSE SplitPath(p, i + 1, Append(seg, p[i]))

RECURSIVE NormalizeSegments(_, _, _, _)
\* normalizeString: "" and "." are dropped, ".." removes the segment before it
NormalizeSegments(segs, i, acc, allowAboveRoot) ==
    IF i > Len(segs) THEN acc
    ELSE LET seg == segs[i]
         IN  IF seg = <<>> \/ seg = <<".">>
             THEN NormalizeSegments(segs, i + 1, acc, allowAboveRoot)
             ELSE IF seg = <<".", ".">>
             THEN IF Len(acc) > 0 /\ acc[Len(acc)] # <<".", ".">>
                  THEN NormalizeSegments(segs, i + 1, SubSeq(acc, 1, Len(acc) - 1),
                                         allowAboveRoot)
                  ELSE IF allowAboveRoot
                  THEN NormalizeSegments(segs, i + 1, Append(acc, seg), allowAboveRoot)
                  ELSE NormalizeSegments(segs, i + 1, acc, allowAboveRoot)
             ELSE NormalizeSegments(segs, i + 1, Append(acc, seg), allowAboveRoot)

RECURSIVE JoinSegments(_, _)
JoinSegments(segs, i) ==
    IF i > Len(segs) THEN <<>>
    ELSE IF i = Len(segs) THEN segs[i]
    ELSE segs[i] \o <<"/">> \o JoinSegments(segs, i + 1)

\* path.normalize
Normalize(p) ==
    IF Len(p) = 0 THEN <<".">>
    ELSE LET isAbsolute == p[1] = "/"
             trailing == p[Len(p)] = "/"
             body == JoinSegments(
                         NormalizeSegments(SplitPath(p, 1, <<>>), 1, <<>>, ~isAbsolute), 1)
             withSep == IF Len(body) > 0 /\ trailing THEN body \o <<"/">> ELSE body
         IN  IF Len(body) = 0
             THEN (IF isAbsolute THEN <<"/">> ELSE IF trailing THEN <<".", "/">> ELSE <<".">>)
             ELSE IF isAbsolute THEN <<"/">> \o withSep ELSE withSep

\* join(baseDir, filename): the non-empty arguments joined by "/", normalized
join(baseDir, filename) ==
    Normalize(IF Len(baseDir) = 0 THEN filename
              ELSE IF Len(filename) = 0 THEN baseDir
              ELSE baseDir \o <<"/">> \o filename)

(***************************************************************************)
(* The file reader.  A reader is a value fileReader(path) can be called    *)
(* on: the default reader reads the files of a file system and fails on a  *)
(* missing path; an injected reader may resolve with any of its texts, or  *)
(* fail, on every call.                                                    *)
(***************************************************************************)

\* how a call of the reader stands: not settled yet, resolved with a text,
\* or failed (rejected, or thrown)
Pending == [state |-> "pending", text |-> <<>>]
Resolved(text) == [state |-> "resolved", text |-> text]
Failure == [state |-> "failed", text |-> <<>>]

FilesReader(files) == [kind |-> "files", files |-> files]
AnyReader(texts) == [kind |-> "any", texts |-> texts]

\* what a call fileReader(path) can settle with
ReaderOutcomes(reader, path) ==
    IF reader.kind = "files"
    THEN (IF path \in DOMAIN reader.files
          THEN {Resolved(reader.files[path])}
          ELSE {Failure})
    ELSE {Resolved(text) : text \in reader.texts} \cup {Failure}

(***************************************************************************)
(* Templates.  An input document is written as a sequence of pieces: the   *)
(* tokens of the template language and stretches of other text.  The       *)
(* engine sees only the characters, Flatten(pieces).                       *)
(***************************************************************************)

Piece(kind, text, key, file, pad, semi) ==
    [kind |-> kind, text |-> text, key |-> key, file |-> file, pad |-> pad,
     semi |-> semi]

Semicolon(semi) == IF semi THEN <<";">> ELSE <<>>

\* any text that is not one of the tokens below
Text(t) == Piece("text", t, <<>>, <<>>, <<>>, FALSE)

\* <!--ws key ws-->
PlaceholderToken(ws1, key, ws2) ==
    Piece("placeholder", CommentOpen \o ws1 \o key \o ws2 \o CommentClose,
          key, <<>>, ws1 \o ws2, FALSE)

\* <!-- renderIf(pad key pad); -->
RenderIfToken(pad, key, semi) ==
    Piece("renderIf",
          CommentOpen \o <<" ">> \o RenderIfWord \o pad \o key \o pad \o <<")">>
              \o Semicolon(semi) \o <<" ">> \o CommentClose,
          key, <<>>, pad, semi)

\* <!-- endIf(); -->
EndIfToken(semi) ==
    Piece("endIf",
          CommentOpen \o <<" ">> \o EndIfWord \o <<")">> \o Semicolon(semi)
              \o <<" ">> \o CommentClose,
          <<>>, <<>>, <<>>, semi)

\* <!-- include(pad file pad); -->
IncludeToken(pad, file, semi) ==
    Piece("include",
          CommentOpen \o <<" ">> \o IncludeWord \o pad \o file \o pad \o <<")">>
              \o Semicolon(semi) \o <<" ">> \o CommentClose,
          <<>>, file, pad, semi)

\* <!-- includeIf(key,pad file); -->
IncludeIfToken(pad, key, file, semi) ==
    Piece("includeIf",
          CommentOpen \o <<" ">> \o IncludeIfWord \o key \o <<",">> \o pad \o file
              \o <<")">> \o Semicolon(semi) \o <<" ">> \o CommentClose,
          key, file, pad, semi)

RECURSIVE FlattenFrom(_, _)
FlattenFrom(pieces, i) ==
    IF i > Len(pieces) THEN <<>> ELSE pieces[i].text \o FlattenFrom(pieces, i + 1)

\* the characters of a document written as pieces
Flatten(pieces) == FlattenFrom(pieces, 1)

\* the documents of at most n pieces of a catalogue
Documents(catalogue, n) == UNION {[1..k -> catalogue] : k \in 0..n}

(***************************************************************************)
(* State                                                                   *)
(***************************************************************************)

VARIABLES
    fileReader,    \* the module's active reader (template.ts, line 7)
    op,            \* the exported function that was called
    pc,            \* where the call is: "start", an await, "done"
    tmpl,          \* the pieces the input document was written from
    html,          \* the call's html
    viewModel,     \* the call's view model
    baseDir,       \* the call's base directory
    lastIndex,     \* lastIndex of the call's regular expression (0-based)
    match,         \* the match whose file is being read
    replacements,  \* includeFiles: the {match, content} pairs collected
    reads,         \* every call of the reader: path, token, reader, result
    logged,        \* every logError call: file name and tag
    trace,         \* the passes that have completed, with their results
    others         \* the calls in flight that are not running now: their locals

vars == <<fileReader, op, pc, tmpl, html, viewModel, baseDir, lastIndex, match,
          replacements, reads, logged, trace, others>>

\* the state in which function o is called on a document, a view model and a
\* base directory drawn from the given sets
InitCall(o, documents, viewModels, baseDirs, readers) ==
    /\ op = o
    /\ pc = "start"
    /\ tmpl \in documents
    /\ html = Flatten(tmpl)
    /\ viewModel \in viewModels
    /\ baseDir \in baseDirs
    /\ fileReader \in readers
    /\ lastIndex = 0
    /\ match = NoMatch
    /\ replacements = <<>>
    /\ reads = <<>>
    /\ logged = <<>>
    /\ trace = <<>>
    /\ others = <<>>

Completed(pass, out) == [pass |-> pass, out |-> out]

(***************************************************************************)
(* replacePlaceholders, renderIf, minifyHtml: synchronous calls            *)
(***************************************************************************)

CallReplacePlaceholders ==
    /\ op = "replacePlaceholders" /\ pc = "start"
    /\ html' = replacePlaceholders(html, viewModel)
    /\ trace' = Append(trace, Completed("replacePlaceholders", html'))
    /\ pc' = "done"
    /\ UNCHANGED <<others, fileReader, op, tmpl, viewModel, baseDir, lastIndex, match,
                   replacements, reads, logged>>

CallRenderIf ==
    /\ op = "renderIf" /\ pc = "start"
    /\ html' = renderIf(html, viewModel)
    /\ trace' = Append(trace, Completed("renderIf", html'))
    /\ pc' = "done"
    /\ UNCHANGED <<others, fileReader, op, tmpl, viewModel, baseDir, lastIndex, match,
                   replacements, reads, logged>>

\* how many times the caller feeds minifyHtml its own result
MaxCalls == 2

CallMinifyHtml ==
    /\ op = "minifyHtml" /\ pc \in {"start", "done"}
    /\ Len(trace) < MaxCalls
    /\ html' = minifyHtml(html)
    /\ trace' = Append(trace, Completed("minifyHtml", html'))
    /\ pc' = "done"
    /\ UNCHANGED <<others, fileReader, op, tmpl, viewModel, baseDir, lastIndex, match,
                   replacements, reads, logged>>

(***************************************************************************)
(* includeFiles (template.ts, lines 102-130)                               *)
(***************************************************************************)

\* the array exec returns for the match m found at index j of s: the
\* matched text and the groups (and the index after the match)
ExecResult(s, j, m, g2) ==
    [end |-> m.end, g0 |-> SubSeq(s, j, m.end - 1), g1 |-> m.g1, g2 |-> g2]

\* what exec returns when the leftmost match is at index j, 0 for no match
ExecIncludeFound(s, j) ==
    IF j = 0 THEN NoMatch ELSE ExecResult(s, j, IncludeAt(s, j), <<>>)

\* includeRegEx.exec(html) searching from index i (lastIndex + 1)
ExecInclude(s, i) ==
    ExecIncludeFound(s, First({k \in i..Len(s) : IncludeAt(s, k) # NoMatch}))

RECURSIVE ApplyReplacements(_, _, _)
\* for (const {match, content} of replacements) html = html.replaceAll(...)
ApplyReplacements(h, repl, i) ==
    IF i > Len(repl) THEN h
    ELSE ApplyReplacements(StringReplaceAll(h, repl[i].match, repl[i].content),
                           repl, i + 1)

\* a call of the reader, before it settles
ReadCall(pass, m, filename) ==
    [pass |-> pass, token |-> m.g0, reader |-> fileReader,
     path |-> join(baseDir, filename), result |-> Pending]

\* the while loop of includeFiles from its head, with html h, lastIndex li and
\* the replacements repl, up to the next call of the reader or to the return;
\* rd and tr are the reads and the trace so far
IncludeFilesRun(h, li, repl, rd, tr) ==
    LET m == ExecInclude(h, li + 1)
    IN  IF m = NoMatch
        THEN /\ html' = ApplyReplacements(h, repl, 1)
             /\ lastIndex' = 0
             /\ match' = NoMatch
             /\ reads' = rd
             /\ trace' = Append(tr, Completed("includeFiles", html'))
             /\ pc' = IF op = "renderTemplate" THEN "afterInclude" ELSE "done"
        ELSE /\ html' = h
             /\ lastIndex' = m.end - 1
             /\ match' = m
             /\ reads' = Append(rd, ReadCall("include", m, Trim(m.g1)))
             /\ trace' = tr
             /\ pc' = "awaitInclude"

CallIncludeFiles ==
    /\ op = "includeFiles" /\ pc = "start"
    /\ replacements' = <<>>
    /\ IncludeFilesRun(html, 0, <<>>, reads, trace)
    /\ UNCHANGED <<others, fileReader, op, tmpl, viewModel, baseDir, logged>>

\* the reader's promise settles: the read resolves with a text or fails
IncludeFilesSettle ==
    /\ pc = "awaitInclude"
    /\ \E result \in ReaderOutcomes(reads[Len(reads)].reader, reads[Len(reads)].path) :
          LET content == result.text
              repl == Append(replacements, [match |-> match.g0, content |-> content])
              settled == [reads EXCEPT ![Len(reads)].result = result]
          IN  /\ replacements' = repl
              /\ logged' = IF result = Failure
                           THEN Append(logged, [file |-> Trim(match.g1),
                                                tag |-> "html-template-engine :: include"])
                           ELSE logged
              /\ IncludeFilesRun(html, lastIndex, repl, settled, trace)
    /\ UNCHANGED <<others, fileReader, op, tmpl, viewModel, baseDir>>

(***************************************************************************)
(* includeFilesIf (template.ts, lines 148-175)                             *)
(***************************************************************************)

\* what exec returns when the leftmost match is at index j, 0 for no match
ExecIncludeIfFound(s, j) ==
    IF j = 0 THEN NoMatch
    ELSE ExecResult(s, j, IncludeIfAt(s, j), IncludeIfAt(s, j).g2)

\* includeIfRegEx.exec(html) searching from index i (lastIndex + 1)
ExecIncludeIf(s, i) ==
    ExecIncludeIfFound(s, First({k \in i..Len(s) : IncludeIfAt(s, k) # NoMatch}))

\* where the scan resumes after a match: the regular expression's lastIndex,
\* the end of the match in the text that was searched
ResumeAt(h, m, replaced) == m.end - 1

RECURSIVE IncludeFilesIfLoop(_, _, _)
\* the while loop of includeFilesIf from its head, with html h and lastIndex
\* li, through the tokens whose key is not truthy (each replaced by nothing
\* at once), up to the first token whose key is truthy or to the end
IncludeFilesIfLoop(h, li, vm) ==
    LET m == ExecIncludeIf(h, li + 1)
    IN  IF m = NoMatch THEN [html |-> h, lastIndex |-> 0, match |-> NoMatch]
        ELSE IF Truthy(Lookup(vm, Trim(m.g1)))
        THEN [html |-> h, lastIndex |-> ResumeAt(h, m, h), match |-> m]
        ELSE LET replaced == StringReplace(h, m.g0, <<>>)
             IN  IncludeFilesIfLoop(replaced, ResumeAt(h, m, replaced), vm)

\* the loop run up to the next call of the reader or to the return
IncludeFilesIfRun(h, li, rd, tr) ==
    LET r == IncludeFilesIfLoop(h, li, viewModel)
    IN  /\ html' = r.html
        /\ lastIndex' = r.lastIndex
        /\ match' = r.match
        /\ IF r.match = NoMatch
           THEN /\ reads' = rd
                /\ trace' = Append(tr, Completed("includeFilesIf", r.html))
                /\ pc' = IF op = "renderTemplate" THEN "afterIncludeIf" ELSE "done"
           ELSE /\ reads' = Append(rd, ReadCall("includeIf", r.match, Trim(r.match.g2)))
                /\ trace' = tr
                /\ pc' = "awaitIncludeIf"

CallIncludeFilesIf ==
    /\ op = "includeFilesIf" /\ pc = "start"
    /\ IncludeFilesIfRun(html, 0, reads, trace)
    /\ UNCHANGED <<others, fileReader, op, tmpl, viewModel, baseDir, replacements, logged>>

\* the reader's promise settles: the read resolves with a text or fails
IncludeFilesIfSettle ==
    /\ pc = "awaitIncludeIf"
    /\ \E result \in ReaderOutcomes(reads[Len(reads)].reader, reads[Len(reads)].path) :
          LET content == result.text
              replaced == StringReplace(html, match.g0, content)
              settled == [reads EXCEPT ![Len(reads)].result = result]
          IN  /\ logged' = IF result = Failure
                           THEN Append(logged, [file |-> Trim(match.g2),
                                                tag |-> "html-template-engine :: includeIf"])
                           ELSE logged
              /\ IncludeFilesIfRun(replaced, lastIndex, settled, trace)
    /\ UNCHANGED <<others, fileReader, op, tmpl, viewModel, baseDir, replacements>>

(***************************************************************************)
(* setFileReader and renderTemplate (template.ts, lines 26-30 and 49-64)   *)
(***************************************************************************)

\* setFileReader(reader), with a reader of the given set
SetFileReader(readers) ==
    /\ \E reader \in readers :
          /\ reader # fileReader
          /\ fileReader' = reader
    /\ UNCHANGED <<others, op, pc, tmpl, html, viewModel, baseDir, lastIndex, match,
                   replacements, reads, logged, trace>>

\* lines 54-55: renderIf, then replacePlaceholders
FirstPasses(h, vm) ==
    LET a == renderIf(h, vm)
        b == replacePlaceholders(a, vm)
    IN  <<Completed("renderIf", a), Completed("replacePlaceholders", b)>>

\* the last passes, were the second renderIf and replacePlaceholders to
\* leave the document as the include passes returned it
LastPassesUnresolved(h, vm) ==
    <<Completed("renderIf", h), Completed("replacePlaceholders", h),
      Completed("minifyHtml", minifyHtml(h))>>

\* lines 60-63: renderIf, replacePlaceholders, then minifyHtml
LastPasses(h, vm) ==
    LET a == renderIf(h, vm)
        b == replacePlaceholders(a, vm)
        c == minifyHtml(b)
    IN  <<Completed("renderIf", a), Completed("replacePlaceholders", b),
          Completed("minifyHtml", c)>>

\* renderTemplate up to its first await
CallRenderTemplate ==
    /\ op = "renderTemplate" /\ pc = "start"
    /\ LET first == FirstPasses(html, viewModel)
       IN  IncludeFilesIfRun(first[Len(first)].out, 0, reads, trace \o first)
    /\ UNCHANGED <<others, fileReader, op, tmpl, viewModel, baseDir, replacements, logged>>

\* line 58: includeFilesIf has returned; includeFiles is called
RenderTemplateIncludes ==
    /\ op = "renderTemplate" /\ pc = "afterIncludeIf"
    /\ replacements' = <<>>
    /\ IncludeFilesRun(html, 0, <<>>, reads, trace)
    /\ UNCHANGED <<others, fileReader, op, tmpl, viewModel, baseDir, logged>>

\* lines 60-63: includeFiles has returned; the last passes run
RenderTemplateFinishes ==
    /\ op = "renderTemplate" /\ pc = "afterInclude"
    /\ LET last == LastPasses(html, viewModel)
       IN  /\ html' = last[Len(last)].out
           /\ trace' = trace \o last
    /\ pc' = "done"
    /\ UNCHANGED <<others, fileReader, op, tmpl, viewModel, baseDir, lastIndex, match,
                   replacements, reads, logged>>

(***************************************************************************)
(* replacePlaceholders on bounded inputs                                   *)
(***************************************************************************)

\* how many pieces a document given to replacePlaceholders has at most
MaxPlaceholderPieces == 3

KeyT == <<"t">>
KeyU == <<"u">>
KeyZ == <<"z", "9">>

PlaceholderPieces ==
    { Text(<<"a">>),
      Text(<<" ">>),
      Text(<<"<", "!", "-", "-", "t", " ", "u", "-", "-", ">">>),
      PlaceholderToken(<<>>, KeyT, <<>>),
      PlaceholderToken(<<" ">>, KeyT, <<" ">>),
      PlaceholderToken(<<" ">>, KeyU, <<"\n", " ">>),
      PlaceholderToken(<<"\t">>, KeyZ, <<" ", " ">>) }

PlaceholderViewModels ==
    { (KeyT :> Str(<<"H", "i">>)) @@ (KeyU :> Bool(FALSE)),
      (KeyT :> Num(0)) @@ (KeyU :> Str(<<>>)),
      (KeyT :> Str(<<"<", "!", "-", "-", "t", "-", "-", ">">>)),
      (KeyT :> Str(<<"$", "&">>)) @@ (KeyU :> Num(42)),
      (KeyU :> Bool(TRUE)),
      <<>> }

InitPlaceholders ==
    InitCall("replacePlaceholders",
             Documents(PlaceholderPieces, MaxPlaceholderPieces),
             PlaceholderViewModels, {<<".">>}, {FilesReader(<<>>)})

NextPlaceholders == CallReplacePlaceholders

SpecPlaceholders == InitPlaceholders /\ [][NextPlaceholders]_vars

\* the text form of each value of PlaceholderViewModels, written out
TextForm(value) ==
    CASE value = Bool(TRUE) -> <<"t", "r", "u", "e">>
      [] value = Bool(FALSE) -> <<"f", "a", "l", "s", "e">>
      [] value = Num(0) -> <<"0">>
      [] value = Num(42) -> <<"4", "2">>
      [] OTHER -> value.v

RECURSIVE C1_Expected(_, _, _)
\* piece by piece: a placeholder token whose key is a key of the view model
\* becomes the text form of the value, every other piece stays as written
C1_Expected(pieces, vm, i) ==
    IF i > Len(pieces) THEN <<>>
    ELSE (IF pieces[i].kind = "placeholder" /\ pieces[i].key \in DOMAIN vm
          THEN TextForm(vm[pieces[i].key])
          ELSE pieces[i].text) \o C1_Expected(pieces, vm, i + 1)

MaxRenderIfPieces == 5

\* delimiters written renderIf(key), with and without the semicolon
RenderIfPieces ==
    { Text(<<"a">>),
      RenderIfToken(<<>>, KeyT, TRUE),
      RenderIfToken(<<>>, KeyU, FALSE),
      EndIfToken(TRUE),
      EndIfToken(FALSE) }

\* how many pieces a document with padded keys has at most
MaxPaddedPieces == 3

\* the same, and a renderIf comment with white space around its key
PaddedPieces == RenderIfPieces \cup {RenderIfToken(<<" ">>, KeyT, TRUE)}

RenderIfViewModels ==
    { (KeyT :> Bool(TRUE)) @@ (KeyU :> Bool(FALSE)),
      (KeyT :> Str(<<"x">>)),
      (KeyT :> Num(0)) @@ (KeyU :> Num(1)),
      (KeyT :> Str(<<>>)) @@ (KeyU :> Bool(TRUE)),
      <<>> }

InitRenderIf ==
    InitCall("renderIf", Documents(RenderIfPieces, MaxRenderIfPieces),
             RenderIfViewModels, {<<".">>}, {FilesReader(<<>>)})

NextRenderIf == CallRenderIf

SpecRenderIf == InitRenderIf /\ [][NextRenderIf]_vars

InitRenderIfPadded ==
    InitCall("renderIf", Documents(PaddedPieces, MaxPaddedPieces),
             RenderIfViewModels, {<<".">>}, {FilesReader(<<>>)})

SpecRenderIfPadded == InitRenderIfPadded /\ [][NextRenderIf]_vars

\* the values of RenderIfViewModels that are truthy, written out
TruthyValues == {Bool(TRUE), Str(<<"x">>), Num(1)}

KeyIsTruthy(vm, key) == key \in DOMAIN vm /\ vm[key] \in TruthyValues

\* the index of the first endIf piece after piece i, 0 when there is none
NextEndIf(pieces, i) ==
    LET later == {j \in (i + 1)..Len(pieces) : pieces[j].kind = "endIf"}
    IN  IF later = {} THEN 0 ELSE CHOOSE j \in later : \A k \in later : j <= k

RECURSIVE C2_Expected(_, _, _)
\* piece by piece: a renderIf piece with an endIf piece after it opens a
\* span that ends at the nearest one; the span becomes the pieces between
\* them when the key is truthy and nothing otherwise; the rest stays
C2_Expected(pieces, vm, i) ==
    IF i > Len(pieces) THEN <<>>
    ELSE LET j == NextEndIf(pieces, i)
         IN  IF pieces[i].kind = "renderIf" /\ j > 0
             THEN (IF KeyIsTruthy(vm, pieces[i].key)
                   THEN Flatten(SubSeq(pieces, i + 1, j - 1))
                   ELSE <<>>) \o C2_Expected(pieces, vm, j + 1)
             ELSE pieces[i].text \o C2_Expected(pieces, vm, i + 1)

\* every renderIf comment of the document is written renderIf(key)
KeysUnpadded(pieces) ==
    \A i \in 1..Len(pieces) : pieces[i].kind = "renderIf" => pieces[i].pad = <<>>

C3_PaddedKey ==
    (op = "renderIf" /\ pc = "done") => html = C2_Expected(tmpl, viewModel, 1)

(***************************************************************************)
(* minifyHtml on bounded inputs                                            *)
(***************************************************************************)

\* how many pieces a document given to minifyHtml has at most
MaxMinifyPieces == 4

MinifyPieces ==
    { Text(<<"a">>),
      Text(<<" ">>),
      Text(<<"\n">>),
      Text(<<"\r", "\n">>),
      Text(<<"<", "!", "-", "-", "x", "\n", "-", "-", ">">>) }

InitMinify ==
    InitCall("minifyHtml", Documents(MinifyPieces, MaxMinifyPieces),
             {<<>>}, {<<".">>}, {FilesReader(<<>>)})

NextMinify == CallMinifyHtml

SpecMinify == InitMinify /\ [][NextMinify]_vars

\* C8: minifyHtml is idempotent: minifying the result of minifyHtml again
\* gives the same document.
C8_Idempotent ==
    (op = "minifyHtml" /\ Len(trace) >= 2) => trace[2].out = trace[1].out

(***************************************************************************)
(* includeFilesIf and includeFiles on bounded inputs                       *)
(***************************************************************************)

\* how many pieces a document given to an include pass has at most
MaxIncludePieces == 3

FileF == <<"f">>
FileG == <<"g">>

\* the text Y, and texts with a replacement pattern
Plain == <<"Y">>
Dollars == <<"$", "$">>
DollarAmp == <<"$", "&">>

\* the files the default reader finds
FileSystem ==
    (<<"f">> :> Plain) @@ (<<"d", "/", "f">> :> Dollars) @@ (<<"d", "/", "g">> :> Plain)

BaseDirs == {<<".">>, <<"d">>}

IncludeIfPieces ==
    { Text(<<"a">>),
      IncludeIfToken(<<" ">>, KeyT, FileF, TRUE),
      IncludeIfToken(<<>>, KeyU, FileG, FALSE) }

IncludeIfReaders == {FilesReader(FileSystem), AnyReader({Plain, Dollars, DollarAmp})}

IncludeViewModels ==
    { (KeyT :> Bool(TRUE)) @@ (KeyU :> Bool(FALSE)),
      (KeyT :> Num(1)) @@ (KeyU :> Str(<<"x">>)),
      (KeyT :> Str(<<>>)),
      <<>> }

InitIncludeIf ==
    InitCall("includeFilesIf", Documents(IncludeIfPieces, MaxIncludePieces),
             IncludeViewModels, BaseDirs, {FilesReader(FileSystem)})

NextIncludeIf ==
    \/ SetFileReader(IncludeIfReaders)
    \/ CallIncludeFilesIf
    \/ IncludeFilesIfSettle

SpecIncludeIf == InitIncludeIf /\ [][NextIncludeIf]_vars

\* the pieces of kind k whose text occurs in document h
Remaining(pieces, k, h) ==
    {i \in 1..Len(pieces) : pieces[i].kind = k /\ IndexOf(h, pieces[i].text, 1) > 0}

\* the includeIf pieces whose key is truthy in the view model
TruthyTokens(pieces, vm) ==
    {i \in 1..Len(pieces) : pieces[i].kind = "includeIf" /\ KeyIsTruthy(vm, pieces[i].key)}

\* the read was asked for by a token of the document whose key is truthy
ReadOfTruthyKey(read, pieces, vm) ==
    \E i \in TruthyTokens(pieces, vm) : pieces[i].text = read.token

\* every read that settled resolved with a text without a replacement pattern
PlainReads ==
    \A i \in 1..Len(reads) : reads[i].result \in {Resolved(Plain), Failure, Pending}

\* C4: includeFilesIf replaces every includeIf token whose key is falsy or
\* absent by the empty string and never calls the reader for it; a call in
\* which no token has a truthy key calls the reader zero times.
C4_FalsyTokens ==
    (op = "includeFilesIf" /\ pc = "done")
        => /\ \A i \in 1..Len(reads) : ReadOfTruthyKey(reads[i], tmpl, viewModel)
           /\ TruthyTokens(tmpl, viewModel) = {} => reads = <<>>
           /\ \A i \in Remaining(tmpl, "includeIf", html) :
                  i \in TruthyTokens(tmpl, viewModel)

\* the part of C4 about the reader alone
C4_NoReadForFalsyKey ==
    /\ \A i \in 1..Len(reads) : ReadOfTruthyKey(reads[i], tmpl, viewModel)
    /\ TruthyTokens(tmpl, viewModel) = {} => reads = <<>>

\* C10: includeFilesIf processes every includeIf token: when the files read
\* contain no includeIf token, the returned document contains no includeIf
\* token of the input.
C10_EveryTokenProcessed ==
    (op = "includeFilesIf" /\ pc = "done" /\ PlainReads)
        => Remaining(tmpl, "includeIf", html) = {}

\* the reads that failed, in order
RECURSIVE FailedReads(_, _)
FailedReads(rd, i) ==
    IF i > Len(rd) THEN <<>>
    ELSE (IF rd[i].result = Failure THEN <<rd[i]>> ELSE <<>>) \o FailedReads(rd, i + 1)

\* the file name written in the token a read was asked for
FileOfToken(pieces, token) ==
    LET i == CHOOSE i \in 1..Len(pieces) : pieces[i].text = token
    IN  pieces[i].file

\* logError was called once for each failed read, in order, with the file
\* name of its token and the tag of the pass
LoggedEachFailure(tag) ==
    LET failed == FailedReads(reads, 1)
    IN  /\ Len(logged) = Len(failed)
        /\ \A k \in 1..Len(logged) :
              /\ logged[k].tag = tag
              /\ logged[k].file = FileOfToken(tmpl, failed[k].token)

\* C5: a failing read never escapes the call: the token whose read failed is
\* replaced by the empty string, the other tokens are still processed, and
\* the failure is logged once per failed read with the tag of the pass.
C5_FailureContained ==
    (op = "includeFilesIf" /\ pc = "done" /\ PlainReads
        /\ FailedReads(reads, 1) # <<>>)
        => /\ LoggedEachFailure("html-template-engine :: includeIf")
           /\ \A i \in 1..Len(reads) :
                  reads[i].result = Failure => IndexOf(html, reads[i].token, 1) = 0
           /\ Remaining(tmpl, "includeIf", html) \subseteq
                  {i \in 1..Len(tmpl) : ~KeyIsTruthy(viewModel, tmpl[i].key)}

\* the part of C5 about the log alone
C5_LoggedOncePerFailure ==
    (op = "includeFilesIf" /\ pc = "done")
        => LoggedEachFailure("html-template-engine :: includeIf")

\* the file f including itself
SelfInclude == IncludeToken(<<>>, FileF, TRUE).text

IncludePieces ==
    { Text(<<"a">>),
      IncludeToken(<<>>, FileF, TRUE),
      IncludeToken(<<" ">>, FileG, FALSE) }

IncludeReaders ==
    {FilesReader(FileSystem), AnyReader({Plain, Dollars, SelfInclude})}

InitInclude ==
    InitCall("includeFiles", Documents(IncludePieces, MaxIncludePieces),
             {<<>>}, BaseDirs, {FilesReader(FileSystem)})

NextInclude ==
    \/ SetFileReader(IncludeReaders)
    \/ CallIncludeFiles
    \/ IncludeFilesSettle

SpecInclude == InitInclude /\ [][NextInclude]_vars

\* what the first read asked for by a token text settled with
FirstResolved(rd, token) ==
    LET first == CHOOSE i \in 1..Len(rd) :
                     /\ rd[i].token = token
                     /\ \A j \in 1..(i - 1) : rd[j].token # token
    IN  rd[first].result.text

RECURSIVE C6_Expected(_, _, _)
\* piece by piece: an include token becomes the text its (first) read
\* resolved with, nothing when that read failed; the rest stays as written
C6_Expected(pieces, rd, i) ==
    IF i > Len(pieces) THEN <<>>
    ELSE (IF pieces[i].kind = "include"
          THEN FirstResolved(rd, pieces[i].text)
          ELSE pieces[i].text) \o C6_Expected(pieces, rd, i + 1)

\* the base directory joined to a file name, for the directories of BaseDirs
ExpectedPath(base, file) ==
    IF base = <<".">> THEN file ELSE base \o <<"/">> \o file

\* no read resolved with a text that contains an include token
NoNestedInclude ==
    \A i \in 1..Len(reads) : reads[i].result.text # SelfInclude

\* no read resolved with a text that contains a "$"
NoDollar ==
    \A i \in 1..Len(reads) : reads[i].result.text \notin {Dollars, DollarAmp}

\* C6: an include(path) token is replaced by exactly the text the reader
\* returned for the path joined to the base directory, character for
\* character, also when the text contains "$"; the rest is unchanged.
C6_ExactContent ==
    (op = "includeFiles" /\ pc = "done" /\ NoNestedInclude)
        => /\ \A i \in 1..Len(reads) :
                  reads[i].path = ExpectedPath(baseDir, FileOfToken(tmpl, reads[i].token))
           /\ html = C6_Expected(tmpl, reads, 1)

\* the part of C6 about the path alone
C6_PathJoined ==
    \A i \in 1..Len(reads) :
        reads[i].path = ExpectedPath(baseDir, FileOfToken(tmpl, reads[i].token))

\* C7: includeFiles does all its reads before it changes the document, and
\* then replaces every occurrence of a token text by what the first read for
\* that text resolved with, whatever later reads of the same path returned.
C7_FirstMatchWins ==
    /\ (op = "includeFiles" /\ pc = "awaitInclude") => html = Flatten(tmpl)
    /\ (op = "includeFiles" /\ pc = "done" /\ NoDollar)
           => html = C6_Expected(tmpl, reads, 1)

\* C7 when no file read contains an include token and no "$"
C7_FirstMatchWinsOnPlainFiles ==
    /\ (op = "includeFiles" /\ pc = "awaitInclude") => html = Flatten(tmpl)
    /\ (op = "includeFiles" /\ pc = "done" /\ NoDollar /\ NoNestedInclude)
           => html = C6_Expected(tmpl, reads, 1)

(***************************************************************************)
(* renderTemplate on bounded inputs                                        *)
(***************************************************************************)

\* how many pieces a document given to renderTemplate has at most
MaxRenderPieces == 3

\* <!-- renderIf(key) --> around an include token <!-- endIf() -->
SpanAroundInclude(key, file) ==
    Piece("span",
          RenderIfToken(<<>>, key, FALSE).text \o IncludeToken(<<>>, file, TRUE).text
              \o EndIfToken(FALSE).text,
          key, file, <<>>, FALSE)

RenderPieces ==
    { Text(<<"a">>),
      PlaceholderToken(<<" ">>, KeyT, <<" ">>),
      IncludeToken(<<>>, FileF, TRUE),
      IncludeIfToken(<<" ">>, KeyU, FileG, TRUE),
      SpanAroundInclude(KeyU, FileF) }

\* files that hold a placeholder, and a placeholder inside a complete span
PlaceholderFile == PlaceholderToken(<<>>, KeyT, <<>>).text
SpanFile ==
    RenderIfToken(<<>>, KeyU, TRUE).text \o PlaceholderFile \o EndIfToken(TRUE).text

RenderReaders ==
    { FilesReader((FileF :> PlaceholderFile) @@ (FileG :> SpanFile)),
      AnyReader({Plain, PlaceholderFile, SpanFile}) }

RenderViewModels ==
    { (KeyT :> Str(<<"V">>)) @@ (KeyU :> Bool(TRUE)),
      (KeyT :> Num(7)) @@ (KeyU :> Bool(FALSE)),
      (KeyT :> Str(<<"V">>)),
      (KeyU :> Num(1)) }

Init ==
    InitCall("renderTemplate", Documents(RenderPieces, MaxRenderPieces),
             RenderViewModels, {<<".">>}, RenderReaders)

Next ==
    \/ CallRenderTemplate
    \/ IncludeFilesIfSettle
    \/ RenderTemplateIncludes
    \/ IncludeFilesSettle
    \/ RenderTemplateFinishes

Spec == Init /\ [][Next]_vars

RECURSIVE Count(_, _, _)
\* how many times the character c occurs in s from index i on
Count(s, c, i) ==
    IF i > Len(s) THEN 0
    ELSE (IF s[i] = c THEN 1 ELSE 0) + Count(s, c, i + 1)

\* the character that shows the value of key t, for RenderViewModels
ValueMark(vm) ==
    IF KeyT \notin DOMAIN vm THEN "V"
    ELSE IF vm[KeyT] = Num(7) THEN "7" ELSE "V"

\* how many values of key t a text read from a file is to show
ValuesIn(text, vm) ==
    IF KeyT \notin DOMAIN vm THEN 0
    ELSE IF text = PlaceholderFile THEN 1
    ELSE IF text = SpanFile /\ KeyIsTruthy(vm, KeyU) THEN 1
    ELSE 0

\* the reads of one pass
RECURSIVE ReadsOf(_, _, _)
ReadsOf(rd, pass, i) ==
    IF i > Len(rd) THEN <<>>
    ELSE (IF rd[i].pass = pass THEN <<rd[i]>> ELSE <<>>) \o ReadsOf(rd, pass, i + 1)

RECURSIVE SumValues(_, _, _)
\* the values to show for the texts the includeIf pass read and inserted
SumValues(rd, vm, i) ==
    IF i > Len(rd) THEN 0
    ELSE ValuesIn(rd[i].result.text, vm) + SumValues(rd, vm, i + 1)

RECURSIVE C9_Expected(_, _, _, _)
\* piece by piece, the values of key t the returned document is to show: one
\* for a placeholder of the document, and for an include token (one inside
\* a span counts when the span is kept) those of the text its first read
\* resolved with
C9_Expected(pieces, rd, vm, i) ==
    IF i > Len(pieces) THEN 0
    ELSE (CASE pieces[i].kind = "placeholder" ->
                   IF KeyT \in DOMAIN vm THEN 1 ELSE 0
            [] pieces[i].kind = "include" ->
                   ValuesIn(FirstResolved(rd, pieces[i].text), vm)
            [] pieces[i].kind = "span" ->
                   IF KeyIsTruthy(vm, pieces[i].key)
                   THEN ValuesIn(FirstResolved(rd, IncludeToken(<<>>, pieces[i].file, TRUE).text), vm)
                   ELSE 0
            [] OTHER -> 0) + C9_Expected(pieces, rd, vm, i + 1)

\* the document holds no placeholder token whose key is in the view model
\* and no renderIf comment followed by an endIf comment
NothingToResolve(h, vm) ==
    \A i \in 1..Len(h) :
        /\ PlaceholderAt(h, i) # NoMatch => PlaceholderAt(h, i).key \notin DOMAIN vm
        /\ RenderIfAt(h, i) = NoMatch

PassOrder ==
    <<"renderIf", "replacePlaceholders", "includeFilesIf", "includeFiles",
      "renderIf", "replacePlaceholders", "minifyHtml">>

\* C9: renderTemplate runs renderIf, replacePlaceholders, includeFilesIf,
\* includeFiles, renderIf, replacePlaceholders, minifyHtml in this order, so
\* that the placeholders and complete renderIf spans brought in by the files
\* read in either include pass are resolved against the view model: none is
\* left in the document handed to minifyHtml, and the returned document
\* shows the value once for each of them that the view model makes visible.
C9_SecondPass ==
    (op = "renderTemplate" /\ pc = "done")
        => /\ [k \in 1..Len(trace) |-> trace[k].pass] = PassOrder
           /\ html = trace[7].out
           /\ NothingToResolve(trace[6].out, viewModel)
           /\ Count(html, ValueMark(viewModel), 1) =
                  C9_Expected(tmpl, ReadsOf(reads, "include", 1), viewModel, 1)
                      + SumValues(ReadsOf(reads, "includeIf", 1), viewModel, 1)

\* a finished render in which both include passes read a file that holds a
\* placeholder, one of them inside a span that is kept
C9_Witness ==
    /\ op = "renderTemplate" /\ pc = "done"
    /\ KeyT \in DOMAIN viewModel /\ KeyIsTruthy(viewModel, KeyU)
    /\ \E i, j \in 1..Len(reads) :
          /\ reads[i].pass = "includeIf" /\ reads[i].result = Resolved(SpanFile)
          /\ reads[j].pass = "include" /\ reads[j].result = Resolved(PlaceholderFile)
    /\ Count(html, ValueMark(viewModel), 1) >= 2

(***************************************************************************)
(* Termination of the include passes on files that include themselves      *)
(***************************************************************************)

\* how many pieces a document has at most
MaxSelfPieces == 2

\* how many reader calls of one call the model follows the settling of
MaxReads == 3

\* <!-- includeIf(t,f) -->, and the file f that holds it twice
SelfToken == IncludeIfToken(<<>>, KeyT, FileF, FALSE)
TwiceItself == SelfToken.text \o SelfToken.text

\* <!-- include(g); -->, and the file g that holds it
SelfInclusion == IncludeToken(<<>>, FileG, TRUE)

SelfPieces == { Text(<<"a">>), SelfToken, SelfInclusion }

SelfReaders ==
    { FilesReader((FileF :> TwiceItself) @@ (FileG :> SelfInclusion.text)),
      AnyReader({Plain, TwiceItself}) }

SelfViewModels == { (KeyT :> Bool(TRUE)), (KeyT :> Num(0)) }

InitSelf ==
    \E o \in {"includeFilesIf", "includeFiles", "renderTemplate"} :
        InitCall(o, Documents(SelfPieces, MaxSelfPieces), SelfViewModels,
                 {<<".">>}, SelfReaders)

\* the read of includeFilesIf settles, for the reads the model follows
IncludeFilesIfSettleWithin ==
    /\ Len(reads) <= MaxReads
    /\ IncludeFilesIfSettle

NextSelf ==
    \/ CallIncludeFilesIf
    \/ IncludeFilesIfSettleWithin
    \/ CallIncludeFiles
    \/ IncludeFilesSettle
    \/ CallRenderTemplate
    \/ RenderTemplateIncludes
    \/ RenderTemplateFinishes

\* the call has a step to take: it has not returned, and the read it awaits
\* is one the model follows
Running ==
    /\ pc # "done"
    /\ pc = "awaitIncludeIf" => Len(reads) <= MaxReads

\* the points of a call, and the largest lastIndex the model's documents
\* allow
PcValues ==
    {"start", "awaitIncludeIf", "afterIncludeIf", "awaitInclude", "afterInclude",
     "done"}
MaxIndex == 200

\* every step of a call moves pc or, in the loop of an include pass,
\* advances lastIndex to the end of the next match
position == <<pc, lastIndex>>

\* a call that has a step to take takes it
Continues ==
    /\ Running
    /\ pc' \in PcValues
    /\ lastIndex' \in 0..MaxIndex

\* every reader call settles and every continuation that is ready runs
SpecSelf == InitSelf /\ [][NextSelf]_vars /\ WF_position(Continues)

\* what WF_position(Continues) rests on: every step of a call is a step of
\* Continues that moves position
C11_EveryStepContinues == [][Continues /\ position' # position]_vars

RECURSIVE Repeat(_, _)
Repeat(s, n) == IF n = 0 THEN <<>> ELSE s \o Repeat(s, n - 1)

\* why the scan of includeFilesIf over <!-- includeIf(t,f) --> does not end
\* when f holds the token twice: while the k-th read is awaited the document
\* is k copies of the token, the last of them is the match and lastIndex is
\* the end of the document; the read puts two copies in place of the first,
\* and the next exec finds the new last copy at lastIndex
C11_SelfIncludeFeedsTheScan ==
    (/\ op = "includeFilesIf" /\ pc = "awaitIncludeIf"
     /\ tmpl = <<SelfToken>>
     /\ \A k \in 1..(Len(reads) - 1) : reads[k].result = Resolved(TwiceItself))
        => /\ html = Repeat(SelfToken.text, Len(reads))
           /\ lastIndex = Len(html)
           /\ match.g0 = SelfToken.text

\* the scan of includeFiles is over a document it does not change: it calls
\* the reader once for each include token of the input
C11_IncludeFilesReadsOncePerToken ==
    (op = "includeFiles" /\ pc = "done")
        => Len(reads) = Cardinality({i \in 1..Len(tmpl) : tmpl[i].kind = "include"})

(***************************************************************************)
(* Two calls in flight together, and setFileReader                         *)
(***************************************************************************)

\* how many pieces the document of each call has at most
MaxSharedPieces == 2

\* what a call keeps to itself: its arguments, its local variables (html,
\* the regular expression with its lastIndex, match, replacements), where
\* it is, and what is recorded of it
Locals ==
    [op |-> op, pc |-> pc, tmpl |-> tmpl, html |-> html, viewModel |-> viewModel,
     baseDir |-> baseDir, lastIndex |-> lastIndex, match |-> match,
     replacements |-> replacements, reads |-> reads, logged |-> logged,
     trace |-> trace]

\* the call that runs now and the others in flight
Calls == <<Locals>> \o others

\* the next continuation to run is another call's, were the regular
\* expression's lastIndex one for all calls
SwitchSharingLastIndex ==
    /\ others # <<>>
    /\ others[1].pc # "done"
    /\ op' = others[1].op
    /\ pc' = others[1].pc
    /\ tmpl' = others[1].tmpl
    /\ html' = others[1].html
    /\ viewModel' = others[1].viewModel
    /\ baseDir' = others[1].baseDir
    /\ lastIndex' = lastIndex
    /\ match' = others[1].match
    /\ replacements' = others[1].replacements
    /\ reads' = others[1].reads
    /\ logged' = others[1].logged
    /\ trace' = others[1].trace
    /\ others' = <<Locals>>
    /\ UNCHANGED fileReader

\* while a call awaits, the next continuation to run is another call's:
\* that call goes on with its own locals and the module's fileReader
Switch ==
    /\ others # <<>>
    /\ others[1].pc # "done"
    /\ op' = others[1].op
    /\ pc' = others[1].pc
    /\ tmpl' = others[1].tmpl
    /\ html' = others[1].html
    /\ viewModel' = others[1].viewModel
    /\ baseDir' = others[1].baseDir
    /\ lastIndex' = others[1].lastIndex
    /\ match' = others[1].match
    /\ replacements' = others[1].replacements
    /\ reads' = others[1].reads
    /\ logged' = others[1].logged
    /\ trace' = others[1].trace
    /\ others' = <<Locals>>
    /\ UNCHANGED fileReader

FileZ == <<"Z">>

SharedPieces ==
    { IncludeToken(<<>>, FileF, TRUE),
      IncludeIfToken(<<>>, KeyT, FileG, FALSE) }

SharedReaders ==
    { FilesReader((FileF :> Plain) @@ (FileG :> FileZ)),
      FilesReader((FileF :> FileZ)) }

SharedViewModel == (KeyT :> Bool(TRUE))

\* a call of function o on document d, before its first step
Started(o, d) ==
    [op |-> o, pc |-> "start", tmpl |-> d, html |-> Flatten(d),
     viewModel |-> SharedViewModel, baseDir |-> <<".">>, lastIndex |-> 0,
     match |-> NoMatch, replacements |-> <<>>, reads |-> <<>>, logged |-> <<>>,
     trace |-> <<>>]

\* two calls of the same function have been made
InitShared ==
    \E o \in {"includeFilesIf", "includeFiles", "renderTemplate"} :
        /\ op = o
        /\ pc = "start"
        /\ tmpl \in Documents(SharedPieces, MaxSharedPieces)
        /\ html = Flatten(tmpl)
        /\ viewModel = SharedViewModel
        /\ baseDir = <<".">>
        /\ fileReader \in SharedReaders
        /\ lastIndex = 0
        /\ match = NoMatch
        /\ replacements = <<>>
        /\ reads = <<>>
        /\ logged = <<>>
        /\ trace = <<>>
        /\ others \in {<<Started(o, d)>> : d \in Documents(SharedPieces, MaxSharedPieces)}

NextShared ==
    \/ SetFileReader(SharedReaders)
    \/ Switch
    \/ CallIncludeFilesIf
    \/ IncludeFilesIfSettle
    \/ CallIncludeFiles
    \/ IncludeFilesSettle
    \/ CallRenderTemplate
    \/ RenderTemplateIncludes
    \/ RenderTemplateFinishes

SpecShared == InitShared /\ [][NextShared]_vars

\* what a reader over files settles a read of path with
Settled(reader, path) == CHOOSE result \in ReaderOutcomes(reader, path) : TRUE

RECURSIVE IncludeFilesIfAlone(_, _, _, _, _)
\* includeFilesIf run from the head of its loop to its return with nothing
\* else running, every read made with the one reader
IncludeFilesIfAlone(h, li, vm, base, reader) ==
    LET r == IncludeFilesIfLoop(h, li, vm)
        content == Settled(reader, join(base, Trim(r.match.g2))).text
    IN  IF r.match = NoMatch THEN r.html
        ELSE IncludeFilesIfAlone(StringReplace(r.html, r.match.g0, content),
                                 r.lastIndex, vm, base, reader)

RECURSIVE IncludeFilesAlone(_, _, _, _, _)
\* includeFiles run from the head of its loop to its return in the same way
IncludeFilesAlone(h, li, repl, base, reader) ==
    LET m == ExecInclude(h, li + 1)
        content == Settled(reader, join(base, Trim(m.g1))).text
    IN  IF m = NoMatch THEN ApplyReplacements(h, repl, 1)
        ELSE IncludeFilesAlone(h, m.end - 1,
                               Append(repl, [match |-> m.g0, content |-> content]),
                               base, reader)

\* renderTemplate run in the same way
RenderTemplateAlone(h, vm, base, reader) ==
    LET first == FirstPasses(h, vm)
        a == IncludeFilesIfAlone(first[Len(first)].out, 0, vm, base, reader)
        b == IncludeFilesAlone(a, 0, <<>>, base, reader)
        last == LastPasses(b, vm)
    IN  last[Len(last)].out

\* what the call c returns when it runs alone with the reader
RunAlone(c, reader) ==
    CASE c.op = "includeFilesIf" ->
             IncludeFilesIfAlone(Flatten(c.tmpl), 0, c.viewModel, c.baseDir, reader)
      [] c.op = "includeFiles" ->
             IncludeFilesAlone(Flatten(c.tmpl), 0, <<>>, c.baseDir, reader)
      [] c.op = "renderTemplate" ->
             RenderTemplateAlone(Flatten(c.tmpl), c.viewModel, c.baseDir, reader)

\* every read of the call c was made with the reader
UsedOnly(c, reader) == \A k \in 1..Len(c.reads) : c.reads[k].reader = reader

\* a call that made its reads with one reader has returned what it returns
\* when it runs alone with that reader
ReturnsAsAlone ==
    \A i \in 1..Len(Calls) : \A reader \in SharedReaders :
        (Calls[i].pc = "done" /\ UsedOnly(Calls[i], reader))
            => Calls[i].html = RunAlone(Calls[i], reader)

\* a step of the running call that calls the reader calls the module's
\* fileReader of that moment, and a read settles with what the reader it was
\* made with gives for its path
ReadsWithTheActiveReader ==
    others' = others =>
        /\ Len(reads') = Len(reads) + 1 =>
               /\ reads'[Len(reads')].reader = fileReader
               /\ reads'[Len(reads')].result = Pending
        /\ (Len(reads) > 0 /\ Len(reads') >= Len(reads)) =>
               /\ reads'[Len(reads)].reader = reads[Len(reads)].reader
               /\ reads'[Len(reads)].result # reads[Len(reads)].result =>
                      /\ reads[Len(reads)].result = Pending
                      /\ reads'[Len(reads)].result \in
                             ReaderOutcomes(reads[Len(reads)].reader,
                                            reads[Len(reads)].path)

\* C12: the active file reader is the only state calls share.  Of two calls
\* interleaved at their awaits, each one whose reads were all made with one
\* reader (setFileReader was not called meanwhile) returns the document it
\* returns when run alone with that reader; and every read is made with the
\* reader that is set at the moment of the read, so that a setFileReader
\* call during a render changes the reader of the render's later reads.
C12_OnlyTheReaderIsShared == []ReturnsAsAlone /\ [][ReadsWithTheActiveReader]_vars

\* a call has run from its start to its return, making two reads with one
\* reader, while the other call awaited its second read; setFileReader was
\* called between the two reads of that other call
C12_Witness ==
    /\ pc = "done" /\ Len(reads) >= 2
    /\ \E reader \in SharedReaders : UsedOnly(Locals, reader)
    /\ html = RunAlone(Locals, reads[1].reader)
    /\ others # <<>>
    /\ others[1].pc \in {"awaitInclude", "awaitIncludeIf"}
    /\ Len(others[1].reads) = 2
    /\ others[1].reads[1].reader # others[1].reads[2].reader

=============================================================================
